---------------------------- MODULE Spec2Model ----------------------------
(***************************************************************************)
(* Model of the "Results" view of the VIKTOR demo app (src/app.py):        *)
(* MyEntityType.plotly_and_data_view evaluates every case of               *)
(* params.calculate.cases, computing its mass either in Python or through  *)
(* the spreadsheet calculator service, normalises the mass against the     *)
(* norm's maximum and classifies it, and returns a bar chart plus a data   *)
(* group.                                                                  *)
(*                                                                         *)
(* Python floats are modelled as exact rationals [num, den] in lowest      *)
(* terms with den > 0.  For the decimal inputs of the model's domain the   *)
(* IEEE-754 products and quotients the code computes classify exactly as   *)
(* the rationals do.                                                       *)
(***************************************************************************)
EXTENDS Integers, Sequences, FiniteSets, TLC

VARIABLES
    cases,          \* params.calculate.cases of the running invocation
    spreadsheet,    \* params.calculate.spreadsheet of the running invocation
    pc,             \* "idle" | "loop" | "done": position of the handler
    i,              \* the index enumerate(..., 1) gives the next case
    max_mass,       \* local max_mass (0: not yet bound)
    graph_data,     \* local graph_data
    data_items,     \* local data_items
    calls,          \* the spreadsheet service's calls of this invocation
    outcome,        \* what the invocation gave its caller
    previous        \* the invocation before, when this one re-runs its cases:
                    \* its method, service calls and outcome, and how many of
                    \* its leading rows were deleted since

vars == <<cases, spreadsheet, pc, i, max_mass, graph_data, data_items, calls,
          outcome, previous>>

---------------------------------------------------------------------------
(* Bounds and input domain *)

MaxCases == 2

Volumes == {3, 5, 8}             \* tenths of a cubic metre (NumberField step)
Densities == {900, 1000}
Norms == {"A", "B", "C", "D"}    \* "D": a norm the handler does not know

---------------------------------------------------------------------------
(* Constants of the program *)

NORM_A_MAX == 500
NORM_B_MAX == 750
NORM_C_MAX == 1000

---------------------------------------------------------------------------
(* Float arithmetic, as exact rationals *)

Abs(n) == IF n < 0 THEN -n ELSE n

RECURSIVE GCD(_, _)
GCD(a, b) == IF b = 0 THEN a ELSE GCD(b, a % b)

Rat(n, d) ==
    LET g == GCD(Abs(n), Abs(d))
        s == IF d < 0 THEN -1 ELSE 1
    IN  [num |-> (s * n) \div g, den |-> (s * d) \div g]

Float(n) == [num |-> n, den |-> 1]

Mul(a, b) == Rat(a.num * b.num, a.den * b.den)

Div(a, b) == Rat(a.num * b.den, a.den * b.num)

Gt(a, b) == a.num * b.den > b.num * a.den

---------------------------------------------------------------------------
(* Inputs of the handler *)

Case(v, d, n) == [volume |-> Rat(v, 10), density |-> d, norm |-> n]

CaseDomain == {Case(v, d, n) : v \in Volumes, d \in Densities, n \in Norms}

CaseLists == UNION {[1..n -> CaseDomain] : n \in 0..MaxCases}

---------------------------------------------------------------------------
(* What the handler gives its caller *)

NoOutcome ==
    [kind |-> "none", exception |-> "", message |-> "",
     x |-> <<>>, y |-> <<>>, color |-> <<>>, data |-> <<>>]

Raised(exception, message) ==
    [kind |-> "raised", exception |-> exception, message |-> message,
     x |-> <<>>, y |-> <<>>, color |-> <<>>, data |-> <<>>]

\* PlotlyAndDataResult(fig, data=DataGroup(*data_items)); fig's one bar trace
\* has x = the labels, y = the unity checks, marker.color = the colours.
PlotlyAndDataResult(x, y, color, items) ==
    [kind |-> "result", exception |-> "", message |-> "",
     x |-> x, y |-> y, color |-> color, data |-> items]

NoPrevious ==
    [rerun |-> FALSE, dropped |-> 0, spreadsheet |-> FALSE, calls |-> <<>>,
     outcome |-> NoOutcome]

---------------------------------------------------------------------------
(* The spreadsheet calculator service.  The sheet (calculate_mass.xlsx) is   *)
(* opaque to the handler: an evaluation either fails, and the call raises,   *)
(* or yields the sheet's 'mass' cell, which is volume * density for the      *)
(* intended sheet and may be anything else for another one (0 stands for     *)
(* these).                                                                   *)

SheetFailure == [ok |-> FALSE, mass |-> Float(0)]

calculate_mass_from_spreadsheet(volume, density) ==
    {[ok |-> TRUE, mass |-> m] : m \in {Mul(volume, Float(density)), Float(0)}}
        \cup {SheetFailure}

\* The service's answer to call number k of the invocation.  An invocation
\* that re-runs cases of the one before it gets, for a request the service
\* already answered for that row, the same answer again.
ServiceAnswers(k, volume, density) ==
    LET before == k + previous.dropped IN
    IF /\ previous.rerun
       /\ before <= Len(previous.calls)
       /\ previous.calls[before].volume = volume
       /\ previous.calls[before].density = density
    THEN {[ok |-> previous.calls[before].ok, mass |-> previous.calls[before].mass]}
    ELSE calculate_mass_from_spreadsheet(volume, density)

Call(volume, density, r) ==
    [volume |-> volume, density |-> density, ok |-> r.ok, mass |-> r.mass]

---------------------------------------------------------------------------
(* The handler's computations *)

KnownNorm(norm) == norm \in {"A", "B", "C"}

\* Mutant: the maxima of norms B and C exchanged.
MaxMass_Exchanged(norm) ==
    IF norm = "A" THEN NORM_A_MAX
    ELSE IF norm = "B" THEN NORM_C_MAX
    ELSE NORM_B_MAX

MaxMass(norm) ==
    IF norm = "A" THEN NORM_A_MAX
    ELSE IF norm = "B" THEN NORM_B_MAX
    ELSE NORM_C_MAX

\* Mutant: the mass is made non-negative.
LocalMass_Abs(case) ==
    LET m == Mul(case.volume, Float(case.density))
    IN  [num |-> Abs(m.num), den |-> m.den]

\* Mutant: the mass as volume / density.
LocalMass_Quotient(case) == Div(case.volume, Float(case.density))

LocalMass(case) == Mul(case.volume, Float(case.density))

\* Mutant: the unity check as a fraction, not a percentage.
UnityCheck_Fraction(mass, max) == Div(mass, Float(max))

UnityCheck(mass, max) == Mul(Div(mass, Float(max)), Float(100))

\* Mutant: a unity check of exactly 100 is an error already.
Classify_Inclusive(unity_check) ==
    IF ~Gt(Float(100), unity_check) THEN [status |-> "ERROR", color |-> "red"]
    ELSE IF Gt(unity_check, Float(80)) THEN [status |-> "WARNING", color |-> "orange"]
    ELSE [status |-> "SUCCESS", color |-> "green"]

\* Mutant: the warning branch takes the error branch's colour.
Classify_WarningRed(unity_check) ==
    IF Gt(unity_check, Float(100)) THEN [status |-> "ERROR", color |-> "red"]
    ELSE IF Gt(unity_check, Float(80)) THEN [status |-> "WARNING", color |-> "red"]
    ELSE [status |-> "SUCCESS", color |-> "green"]

Classify(unity_check) ==
    IF Gt(unity_check, Float(100)) THEN [status |-> "ERROR", color |-> "red"]
    ELSE IF Gt(unity_check, Float(80)) THEN [status |-> "WARNING", color |-> "orange"]
    ELSE [status |-> "SUCCESS", color |-> "green"]

DataItem(k, case, mass, unity_check, status) ==
    [label |-> <<"Case", k>>, value |-> unity_check, status |-> status,
     subgroup |-> [volume |-> case.volume, density |-> case.density,
                   mass |-> mass, norm |-> case.norm,
                   unity_check |-> unity_check, status |-> status]]

\* Mutant: the chart point is put in front of the others.
AppendCase_Prepend(case, mass) ==
    LET unity_check == UnityCheck(mass, MaxMass(case.norm))
        c == Classify(unity_check)
    IN  /\ max_mass' = MaxMass(case.norm)
        /\ graph_data' = <<<<unity_check, c.color>>>> \o graph_data
        /\ data_items' = Append(data_items,
                                DataItem(i, case, mass, unity_check, c.status))
        /\ i' = i + 1

\* Mutant: the maximum mass is looked up for the first case only.
AppendCase_FirstMax(case, mass) ==
    LET max == IF max_mass = 0 THEN MaxMass(case.norm) ELSE max_mass
        unity_check == UnityCheck(mass, max)
        c == Classify(unity_check)
    IN  /\ max_mass' = max
        /\ graph_data' = Append(graph_data, <<unity_check, c.color>>)
        /\ data_items' = Append(data_items,
                                DataItem(i, case, mass, unity_check, c.status))
        /\ i' = i + 1

\* The rest of one loop iteration, once the mass is known.
AppendCase(case, mass) ==
    LET unity_check == UnityCheck(mass, MaxMass(case.norm))
        c == Classify(unity_check)
    IN  /\ max_mass' = MaxMass(case.norm)
        /\ graph_data' = Append(graph_data, <<unity_check, c.color>>)
        /\ data_items' = Append(data_items,
                                DataItem(i, case, mass, unity_check, c.status))
        /\ i' = i + 1

---------------------------------------------------------------------------
(* Actions *)

Init ==
    /\ cases = <<>>
    /\ spreadsheet = FALSE
    /\ pc = "idle"
    /\ i = 1
    /\ max_mass = 0
    /\ graph_data = <<>>
    /\ data_items = <<>>
    /\ calls = <<>>
    /\ outcome = NoOutcome
    /\ previous = NoPrevious

\* Mutant: the two lists outlive the invocation and are not emptied.
Enter_KeepLists ==
    /\ pc' = "loop"
    /\ i' = 1
    /\ max_mass' = 0
    /\ graph_data' = graph_data
    /\ data_items' = data_items
    /\ calls' = <<>>
    /\ outcome' = NoOutcome

\* Entry of plotly_and_data_view: graph_data, data_items = [], []
Enter ==
    /\ pc' = "loop"
    /\ i' = 1
    /\ max_mass' = 0
    /\ graph_data' = <<>>
    /\ data_items' = <<>>
    /\ calls' = <<>>
    /\ outcome' = NoOutcome

\* The platform calls the view with params.
Invoke ==
    /\ pc = "idle"
    /\ \E cs \in CaseLists, sp \in BOOLEAN :
          /\ cases' = cs
          /\ spreadsheet' = sp
    /\ previous' = NoPrevious
    /\ Enter

\* The user clicks 'Update' again on the same cases, the calculation method
\* kept or switched to the spreadsheet.
Reinvoke ==
    /\ pc = "done"
    /\ \E sp \in {spreadsheet, TRUE} : spreadsheet' = sp
    /\ cases' = cases
    /\ previous' = [rerun |-> TRUE, dropped |-> 0, spreadsheet |-> spreadsheet,
                    calls |-> calls, outcome |-> outcome]
    /\ Enter

\* The user deletes the first row of the DynamicArray and clicks 'Update'.
ReinvokeWithoutFirst ==
    /\ pc = "done"
    /\ cases # <<>>
    /\ cases' = Tail(cases)
    /\ spreadsheet' = spreadsheet
    /\ previous' = [rerun |-> TRUE, dropped |-> 1, spreadsheet |-> spreadsheet,
                    calls |-> calls, outcome |-> outcome]
    /\ Enter

\* Mutant: the mass is computed first and the norm looked up after it.
RaiseNotImplemented_AfterMass ==
    /\ pc = "loop"
    /\ i <= Len(cases)
    /\ ~KnownNorm(cases[i].norm)
    /\ IF spreadsheet
       THEN \E r \in ServiceAnswers(Len(calls) + 1, cases[i].volume,
                                    cases[i].density) :
               /\ r.ok
               /\ calls' = Append(calls, Call(cases[i].volume, cases[i].density, r))
       ELSE calls' = calls
    /\ pc' = "done"
    /\ outcome' = Raised("NotImplementedError", "")
    /\ UNCHANGED <<cases, spreadsheet, i, max_mass, graph_data, data_items,
                   previous>>

\* else: raise NotImplementedError
RaiseNotImplemented ==
    /\ pc = "loop"
    /\ i <= Len(cases)
    /\ ~KnownNorm(cases[i].norm)
    /\ pc' = "done"
    /\ outcome' = Raised("NotImplementedError", "")
    /\ UNCHANGED <<cases, spreadsheet, i, max_mass, graph_data, data_items,
                   calls, previous>>

\* mass = case.volume * case.density, and the rest of the iteration
EvaluateLocal ==
    /\ pc = "loop"
    /\ i <= Len(cases)
    /\ KnownNorm(cases[i].norm)
    /\ ~spreadsheet
    /\ AppendCase(cases[i], LocalMass(cases[i]))
    /\ UNCHANGED <<cases, spreadsheet, pc, calls, outcome, previous>>

\* mass = calculate_mass_from_spreadsheet(case.volume, case.density), and the
\* rest of the iteration
EvaluateSpreadsheet ==
    /\ pc = "loop"
    /\ i <= Len(cases)
    /\ KnownNorm(cases[i].norm)
    /\ spreadsheet
    /\ \E r \in ServiceAnswers(Len(calls) + 1, cases[i].volume, cases[i].density) :
          /\ r.ok
          /\ calls' = Append(calls, Call(cases[i].volume, cases[i].density, r))
          /\ AppendCase(cases[i], r.mass)
    /\ UNCHANGED <<cases, spreadsheet, pc, outcome, previous>>

\* Mutant: a failed calculation is caught and a mass of 0 is used instead.
SpreadsheetFails_Default ==
    /\ pc = "loop"
    /\ i <= Len(cases)
    /\ KnownNorm(cases[i].norm)
    /\ spreadsheet
    /\ \E r \in ServiceAnswers(Len(calls) + 1, cases[i].volume, cases[i].density) :
          /\ ~r.ok
          /\ calls' = Append(calls, Call(cases[i].volume, cases[i].density, r))
    /\ AppendCase(cases[i], Float(0))
    /\ UNCHANGED <<cases, spreadsheet, pc, outcome, previous>>

\* Mutant: a failed calculation is caught and the case is tried again.
SpreadsheetFails_Retry ==
    /\ pc = "loop"
    /\ i <= Len(cases)
    /\ KnownNorm(cases[i].norm)
    /\ spreadsheet
    /\ \E r \in ServiceAnswers(Len(calls) + 1, cases[i].volume, cases[i].density) :
          /\ ~r.ok
          /\ calls' = Append(calls, Call(cases[i].volume, cases[i].density, r))
    /\ max_mass' = MaxMass(cases[i].norm)
    /\ UNCHANGED <<cases, spreadsheet, pc, i, graph_data, data_items, outcome,
                   previous>>

\* calculate_mass_from_spreadsheet raises: the exception leaves the handler
SpreadsheetFails ==
    /\ pc = "loop"
    /\ i <= Len(cases)
    /\ KnownNorm(cases[i].norm)
    /\ spreadsheet
    /\ \E r \in ServiceAnswers(Len(calls) + 1, cases[i].volume, cases[i].density) :
          /\ ~r.ok
          /\ calls' = Append(calls, Call(cases[i].volume, cases[i].density, r))
    /\ max_mass' = MaxMass(cases[i].norm)
    /\ pc' = "done"
    /\ outcome' = Raised("SpreadsheetError", "")
    /\ UNCHANGED <<cases, spreadsheet, i, graph_data, data_items, previous>>

\* Mutant: no check for an empty graph_data; an empty chart is returned.
CreateResult_NoCheck ==
    outcome' = PlotlyAndDataResult(
                   [k \in 1..Len(graph_data) |-> <<"Case", k>>],
                   [k \in 1..Len(graph_data) |-> graph_data[k][1]],
                   [k \in 1..Len(graph_data) |-> graph_data[k][2]],
                   data_items)

\* After the loop: the Plotly figure and the result, or the UserException
CreateResult ==
    IF graph_data # <<>>
    THEN outcome' = PlotlyAndDataResult(
                        [k \in 1..Len(graph_data) |-> <<"Case", k>>],
                        [k \in 1..Len(graph_data) |-> graph_data[k][1]],
                        [k \in 1..Len(graph_data) |-> graph_data[k][2]],
                        data_items)
    ELSE outcome' = Raised("UserException", "Add at least 1 case.")

Plot ==
    /\ pc = "loop"
    /\ i > Len(cases)
    /\ CreateResult
    /\ pc' = "done"
    /\ UNCHANGED <<cases, spreadsheet, i, max_mass, graph_data, data_items,
                   calls, previous>>

\* The caller has the outcome; the handler's frame and its locals are gone.
Return ==
    /\ pc = "done"
    /\ pc' = "idle"
    /\ cases' = <<>>
    /\ spreadsheet' = FALSE
    /\ i' = 1
    /\ max_mass' = 0
    /\ graph_data' = <<>>
    /\ data_items' = <<>>
    /\ calls' = <<>>
    /\ outcome' = NoOutcome
    /\ previous' = NoPrevious

Next ==
    \/ Invoke
    \/ Return
    \/ Reinvoke
    \/ ReinvokeWithoutFirst
    \/ RaiseNotImplemented
    \/ EvaluateLocal
    \/ EvaluateSpreadsheet
    \/ SpreadsheetFails
    \/ Plot

Spec == Init /\ [][Next]_vars

---------------------------------------------------------------------------
(* The handler called with params the editor's fields would not let through: *)
(* the minima of the volume and density fields are declared on the           *)
(* Parametrization, the handler itself reads case.volume and case.density    *)
(* as they come.                                                             *)

UnvalidatedVolumes == {-8, 3}
UnvalidatedDensities == {-1000, 0, 1000}

UnvalidatedDomain ==
    {Case(v, d, n) : v \in UnvalidatedVolumes, d \in UnvalidatedDensities,
                     n \in Norms}

UnvalidatedLists == UNION {[1..n -> UnvalidatedDomain] : n \in 0..MaxCases}

InvokeUnvalidated ==
    /\ pc = "idle"
    /\ \E cs \in UnvalidatedLists, sp \in BOOLEAN :
          /\ cases' = cs
          /\ spreadsheet' = sp
    /\ previous' = NoPrevious
    /\ Enter

NextUnvalidated ==
    \/ InvokeUnvalidated
    \/ Return
    \/ Reinvoke
    \/ ReinvokeWithoutFirst
    \/ RaiseNotImplemented
    \/ EvaluateLocal
    \/ EvaluateSpreadsheet
    \/ SpreadsheetFails
    \/ Plot

SpecUnvalidated == Init /\ [][NextUnvalidated]_vars

TypeOK ==
    /\ pc \in {"idle", "loop", "done"}
    /\ Len(cases) <= MaxCases
    /\ i \in 1..(Len(cases) + 1)
    /\ Len(graph_data) = Len(data_items)

---------------------------------------------------------------------------
(* Properties.  Reals are compared by cross-multiplication of their          *)
(* numerators and denominators (every denominator is positive), the maxima   *)
(* and the status thresholds are written out as the numbers the              *)
(* specification states.                                                     *)

Returned == pc = "done" /\ outcome.kind = "result"

\* m = v * d
IsProduct(m, v, d) == m.num * v.den = v.num * d * m.den

\* u = m / t * 100
IsPercentage(u, m, t) == u.num * t * m.den = m.num * 100 * u.den

StatedMax(norm) ==
    CASE norm = "A" -> 500
      [] norm = "B" -> 750
      [] norm = "C" -> 1000

StatedStatus(u) ==
    IF u.num > 100 * u.den THEN "ERROR"
    ELSE IF u.num > 80 * u.den THEN "WARNING"
    ELSE "SUCCESS"

\* The service returned volume * density to every call and never failed.
Faithful(cs) ==
    \A k \in 1..Len(cs) :
        cs[k].ok /\ IsProduct(cs[k].mass, cs[k].volume, cs[k].density)

\* C1: every evaluated case's status is decided on its unity check: above 100
\* ERROR, above 80 and at most 100 WARNING, at most 80 SUCCESS; exactly 100 is
\* WARNING and exactly 80 is SUCCESS.
C1_StatusByThreshold ==
    \A k \in 1..Len(data_items) :
        LET u == data_items[k].value
            st == data_items[k].status
        IN  /\ st \in {"ERROR", "WARNING", "SUCCESS"}
            /\ (u.num > 100 * u.den) <=> (st = "ERROR")
            /\ (u.num > 80 * u.den /\ u.num <= 100 * u.den) <=> (st = "WARNING")
            /\ (u.num <= 80 * u.den) <=> (st = "SUCCESS")
            /\ (u = Float(100)) => (st = "WARNING")
            /\ (u = Float(80)) => (st = "SUCCESS")
            /\ data_items[k].subgroup.status = st

C1_Witness ==
    /\ Returned
    /\ \E j, k \in 1..Len(data_items) :
          /\ data_items[j].value = Float(100) /\ data_items[j].status = "WARNING"
          /\ data_items[k].value = Float(80) /\ data_items[k].status = "SUCCESS"

\* C2: an invocation with no cases ends with the UserException "Add at least
\* 1 case." under either calculation method, returns no result, and does no
\* per-case work: no iteration, no maximum looked up, no service call.
C2_EmptyBatchRaises ==
    (pc # "idle" /\ cases = <<>>) =>
        /\ i = 1 /\ max_mass = 0 /\ calls = <<>>
        /\ graph_data = <<>> /\ data_items = <<>>
        /\ pc = "done" => outcome = Raised("UserException", "Add at least 1 case.")

C2_Witness ==
    /\ pc = "done" /\ cases = <<>> /\ spreadsheet
    /\ outcome.exception = "UserException"
    /\ previous.rerun /\ previous.dropped = 0 /\ ~previous.spreadsheet
    /\ previous.outcome.exception = "UserException"

\* C3: when the service fails for case k, the invocation ends there with the
\* service's error: no result is returned, the k-1 cases evaluated before are
\* not returned either, and case k gets no mass.
C3_ServiceFailureAborts ==
    \A k \in 1..Len(calls) :
        ~calls[k].ok =>
            /\ k = Len(calls) /\ k = i
            /\ pc = "done"
            /\ outcome = Raised("SpreadsheetError", "")
            /\ outcome.data = <<>> /\ outcome.y = <<>>
            /\ Len(data_items) = k - 1 /\ Len(graph_data) = k - 1

C3_Witness ==
    /\ pc = "done" /\ Len(cases) = 2 /\ Len(calls) = 2
    /\ calls[1].ok /\ ~calls[2].ok
    /\ Len(data_items) = 1
    /\ outcome.kind = "raised"

\* C4: a returned result on N cases holds N data items and N chart points,
\* the k-th of each labelled "Case k" and computed from the k-th case.
C4_ResultAligned ==
    outcome.kind = "result" =>
        LET N == Len(cases) IN
        /\ N >= 1
        /\ Len(outcome.data) = N
        /\ Len(outcome.x) = N /\ Len(outcome.y) = N /\ Len(outcome.color) = N
        /\ \A k \in 1..N :
              LET item == outcome.data[k]
                  mass == item.subgroup.mass
              IN  /\ item.label = <<"Case", k>>
                  /\ outcome.x[k] = <<"Case", k>>
                  /\ item.subgroup.volume = cases[k].volume
                  /\ item.subgroup.density = cases[k].density
                  /\ item.subgroup.norm = cases[k].norm
                  /\ ~spreadsheet =>
                        IsProduct(mass, cases[k].volume, cases[k].density)
                  /\ spreadsheet =>
                        /\ Len(calls) = N
                        /\ calls[k].volume = cases[k].volume
                        /\ calls[k].density = cases[k].density
                        /\ calls[k].mass = mass
                  /\ IsPercentage(item.value, mass, StatedMax(cases[k].norm))
                  /\ outcome.y[k] = item.value
                  /\ outcome.color[k] \in {"green", "orange", "red"}

C4_Witness ==
    /\ Returned /\ Len(cases) = 2
    /\ cases[1] # cases[2]
    /\ outcome.y[1] # outcome.y[2]
    /\ Len(outcome.data) = 2

\* C5: the same cases evaluated with the Python formula and with the
\* spreadsheet, the service returning volume * density to every call and
\* never failing, give the same outcome: the same mass, unity check, status
\* and colour for every case.
C5_StrategiesAgree ==
    (/\ pc = "done"
     /\ previous.rerun /\ previous.dropped = 0
     /\ ~previous.spreadsheet /\ spreadsheet
     /\ Faithful(calls))
        => outcome = previous.outcome

C5_Witness ==
    /\ Returned /\ previous.rerun /\ previous.dropped = 0
    /\ ~previous.spreadsheet /\ spreadsheet
    /\ Len(calls) = 2 /\ Faithful(calls)
    /\ outcome.data = previous.outcome.data
    /\ outcome.color[1] # outcome.color[2]

\* C6: the maximum mass used for a case is 500 for norm A, 750 for norm B and
\* 1000 for norm C, whatever else the case holds, and NotImplementedError is
\* raised only when some case's norm is none of A, B, C.
C6_ThresholdByNorm ==
    /\ (pc = "loop" /\ i > 1) => max_mass = StatedMax(cases[i - 1].norm)
    /\ \A k \in 1..Len(data_items) :
          IsPercentage(data_items[k].value, data_items[k].subgroup.mass,
                       StatedMax(cases[k].norm))
    /\ (\A k \in 1..Len(cases) : cases[k].norm \in {"A", "B", "C"}) =>
          outcome.exception # "NotImplementedError"

C6_Witness ==
    /\ Returned /\ Len(cases) = 2
    /\ cases[1].norm = "B" /\ cases[2].norm = "C"
    /\ max_mass = 1000
    /\ outcome.data[1].subgroup.mass # Float(0)

\* C7: with the Python formula a case with volume >= 0 and density >= 0 gets
\* mass = volume * density and unity check = mass / maximum * 100; volume
\* 0.3, density 1000, norm A give 300, 60 and SUCCESS, and volume 0.8,
\* density 1000, norm A give 800, 160 and ERROR.
C7_LocalFormula ==
    ~spreadsheet =>
        \A k \in 1..Len(data_items) :
            LET item == data_items[k]
                c == cases[k]
            IN  (c.volume.num >= 0 /\ c.density >= 0) =>
                /\ IsProduct(item.subgroup.mass, c.volume, c.density)
                /\ IsPercentage(item.value, item.subgroup.mass, StatedMax(c.norm))
                /\ item.subgroup.unity_check = item.value
                /\ c = [volume |-> [num |-> 3, den |-> 10], density |-> 1000,
                        norm |-> "A"] =>
                      /\ item.subgroup.mass = Float(300)
                      /\ item.value = Float(60)
                      /\ item.status = "SUCCESS"
                /\ c = [volume |-> [num |-> 4, den |-> 5], density |-> 1000,
                        norm |-> "A"] =>
                      /\ item.subgroup.mass = Float(800)
                      /\ item.value = Float(160)
                      /\ item.status = "ERROR"

C7_Witness ==
    /\ Returned /\ ~spreadsheet /\ Len(cases) = 2
    /\ cases[1] = [volume |-> [num |-> 3, den |-> 10], density |-> 1000, norm |-> "A"]
    /\ cases[2] = [volume |-> [num |-> 4, den |-> 5], density |-> 1000, norm |-> "A"]
    /\ outcome.y = <<Float(60), Float(160)>>

\* C8: in a returned result the k-th chart colour goes with the k-th data
\* item's status, green with SUCCESS, orange with WARNING, red with ERROR,
\* and the k-th chart value is the k-th data item's unity check.
C8_ColourByStatus ==
    outcome.kind = "result" =>
        /\ Len(outcome.color) = Len(outcome.data)
        /\ Len(outcome.y) = Len(outcome.data)
        /\ \A k \in 1..Len(outcome.data) :
              LET st == outcome.data[k].status
                  col == outcome.color[k]
              IN  /\ (st = "SUCCESS") <=> (col = "green")
                  /\ (st = "WARNING") <=> (col = "orange")
                  /\ (st = "ERROR") <=> (col = "red")
                  /\ outcome.y[k] = outcome.data[k].value

C8_Witness ==
    /\ Returned /\ Len(outcome.data) = 2
    /\ outcome.data[1].status = "WARNING" /\ outcome.color[1] = "orange"
    /\ outcome.data[2].status = "ERROR" /\ outcome.color[2] = "red"

\* The mass, unity check and status a data item reports.
Values(item) ==
    [mass |-> item.subgroup.mass, unity_check |-> item.value, status |-> item.status]

\* C9: what a case gets depends on its own volume, density and norm, on the
\* calculation method and, with the spreadsheet, on the service's answer for
\* it: it is the stated function of these, it is the same for two rows of a
\* batch that agree on them, and deleting the row before it and evaluating
\* again gives it the same values one place earlier.
C9_CasesIndependent ==
    /\ \A k \in 1..Len(data_items) :
          LET item == data_items[k] IN
          /\ ~spreadsheet =>
                IsProduct(item.subgroup.mass, cases[k].volume, cases[k].density)
          /\ spreadsheet => item.subgroup.mass = calls[k].mass
          /\ IsPercentage(item.value, item.subgroup.mass, StatedMax(cases[k].norm))
          /\ item.status = StatedStatus(item.value)
    /\ \A j, k \in 1..Len(data_items) :
          (cases[j] = cases[k] /\ (spreadsheet => calls[j].mass = calls[k].mass))
              => Values(data_items[j]) = Values(data_items[k])
    /\ (previous.rerun /\ previous.spreadsheet = spreadsheet) =>
          \A k \in 1..Len(data_items) :
              LET before == k + previous.dropped IN
              (/\ before <= Len(previous.outcome.data)
               /\ spreadsheet => previous.calls[before].mass = calls[k].mass)
                  => Values(data_items[k]) = Values(previous.outcome.data[before])

C9_Witness ==
    /\ Returned /\ previous.rerun /\ previous.dropped = 1
    /\ Len(previous.outcome.data) = 2 /\ Len(outcome.data) = 1
    /\ previous.outcome.data[1].subgroup.norm = "A"
    /\ outcome.data[1].subgroup.norm = "C"
    /\ Values(outcome.data[1]) = Values(previous.outcome.data[2])
    /\ outcome.data[1].label # previous.outcome.data[2].label

\* C10: evaluating the same cases with the same calculation method again,
\* the service answering as before, gives the same outcome again, a result
\* or an error, whatever was evaluated before.
C10_SameOutcomeAgain ==
    (/\ pc = "done"
     /\ previous.rerun /\ previous.dropped = 0
     /\ previous.spreadsheet = spreadsheet
     /\ \A k \in 1..Len(calls) :
           (/\ k <= Len(previous.calls)
            /\ calls[k].volume = previous.calls[k].volume
            /\ calls[k].density = previous.calls[k].density)
               => calls[k] = previous.calls[k])
        => outcome = previous.outcome

C10_Witness ==
    /\ Returned /\ spreadsheet
    /\ previous.rerun /\ previous.dropped = 0 /\ previous.spreadsheet
    /\ Len(calls) = 2 /\ calls = previous.calls
    /\ outcome = previous.outcome

\* What the log of service calls of an invocation looks like: call k is the
\* one call for case k, only the last call may have failed, and it ended the
\* invocation.
C11_CallLog ==
    /\ ~spreadsheet => calls = <<>>
    /\ Len(calls) <= Len(cases)
    /\ \A k \in 1..Len(calls) :
          /\ calls[k].volume = cases[k].volume
          /\ calls[k].density = cases[k].density
          /\ ~calls[k].ok => (k = Len(calls) /\ pc = "done")
    /\ (pc = "loop" /\ spreadsheet) => Len(calls) = i - 1
    /\ (Returned /\ spreadsheet) =>
          /\ Len(calls) = Len(cases)
          /\ \A k \in 1..Len(calls) : calls[k].ok

\* How the log grows: by one call, for the next case in input order, made
\* with the spreadsheet method while no call has failed; a new invocation
\* starts an empty log.
C11_CallStep ==
    \/ calls' = calls
    \/ calls' = <<>> /\ pc \in {"idle", "done"}
    \/ /\ pc = "loop" /\ spreadsheet
       /\ i <= Len(cases) /\ Len(calls) = i - 1
       /\ \A k \in 1..Len(calls) : calls[k].ok
       /\ Len(calls') = i
       /\ SubSeq(calls', 1, i - 1) = calls
       /\ calls'[i].volume = cases[i].volume
       /\ calls'[i].density = cases[i].density
       /\ IF calls'[i].ok THEN pc' = "loop" /\ i' = i + 1
                          ELSE pc' = "done" /\ i' = i

\* C11: within an invocation the service is called at most once per case and
\* in input order; a failed call is not retried and no call follows it; an
\* invocation that returns a result called it once for each case; with the
\* Python formula it is never called.
C11_ServiceCalledOncePerCase == []C11_CallLog /\ [][C11_CallStep]_vars

C11_Witness ==
    /\ pc = "done" /\ spreadsheet /\ Len(cases) = 2
    /\ cases[1] # cases[2]
    /\ KnownNorm(cases[2].norm)
    /\ Len(calls) = 1 /\ ~calls[1].ok
    /\ previous.rerun /\ previous.dropped = 0 /\ ~previous.spreadsheet
    /\ previous.calls = <<>> /\ previous.outcome.kind = "result"

\* C13: the norm's maximum is looked up before the mass is computed: a case
\* whose norm is none of A, B, C ends the invocation with
\* NotImplementedError, no result is returned, no case after it is
\* evaluated, and the service is not called for it, with either method.
C13_UnknownNormAborts ==
    /\ \A k \in 1..Len(cases) :
          cases[k].norm \notin {"A", "B", "C"} =>
              /\ i <= k
              /\ Len(data_items) < k /\ Len(graph_data) < k
              /\ Len(calls) < k
              /\ outcome.kind # "result"
              /\ (pc = "done" /\ i = k) =>
                    outcome = Raised("NotImplementedError", "")
    /\ outcome.exception = "NotImplementedError" =>
          /\ pc = "done"
          /\ i <= Len(cases)
          /\ cases[i].norm \notin {"A", "B", "C"}
          /\ Len(data_items) = i - 1
          /\ Len(calls) = IF spreadsheet THEN i - 1 ELSE 0

C13_Witness ==
    /\ pc = "done" /\ spreadsheet /\ Len(cases) = 2
    /\ cases[1].norm = "B" /\ cases[2].norm = "D"
    /\ outcome.exception = "NotImplementedError"
    /\ Len(calls) = 1 /\ calls[1].ok
    /\ Len(data_items) = 1

\* C12: with the Python formula a case with a negative volume or density
\* raises no error and is evaluated like any other: its mass is volume *
\* density, its unity check mass / maximum * 100, and a unity check that is
\* negative or zero is a SUCCESS, in green.
C12_NoInputValidation ==
    ~spreadsheet =>
        /\ \A k \in 1..Len(data_items) :
              LET item == data_items[k] IN
              /\ IsProduct(item.subgroup.mass, cases[k].volume, cases[k].density)
              /\ IsPercentage(item.value, item.subgroup.mass,
                              StatedMax(cases[k].norm))
              /\ item.status = StatedStatus(item.value)
              /\ item.value.num <= 0 =>
                    (item.status = "SUCCESS" /\ graph_data[k][2] = "green")
        /\ (/\ pc = "done"
            /\ cases # <<>>
            /\ \A k \in 1..Len(cases) : cases[k].norm \in {"A", "B", "C"})
              => (outcome.kind = "result" /\ Len(outcome.data) = Len(cases))

C12_Witness ==
    /\ Returned /\ ~spreadsheet /\ Len(cases) = 2
    /\ cases[1].volume.num < 0 /\ cases[1].density > 0
    /\ outcome.data[1].subgroup.mass.num < 0
    /\ outcome.data[1].value.num < 0
    /\ outcome.data[1].status = "SUCCESS" /\ outcome.color[1] = "green"
    /\ cases[2].density = 0
    /\ outcome.data[2].value = Float(0)
    /\ outcome.data[2].status = "SUCCESS" /\ outcome.color[2] = "green"

====
